---- MODULE Spec2Model ----
(***************************************************************************)
(* Intelligent-scissors (live-wire) engine of dwv: src/src/math/scissors.js *)
(*                                                                         *)
(* The image is binary: every pixel is black (0,0,0) or white (255,255,255),*)
(* so greyscale values are 0 or 1, first differences are -1, 0 or 1,        *)
(* gradient magnitudes are 0, 1 or sqrt(2) and every cost is an exact       *)
(* number X + Y*SQRT1_2 (X, Y integers, in units of 1/1200).  Numbers are   *)
(* the pairs <<X, Y>>; comparisons and Math.round are computed exactly on   *)
(* them, so the model follows the real-number value of every JavaScript     *)
(* expression (IEEE rounding error of the doubles is not modelled).         *)
(* Pixels are pairs <<x, y>> (p[1] = p.x, p[2] = p.y).                      *)
(***************************************************************************)
EXTENDS Integers, Sequences, FiniteSets, TLC

\* ---- bounds of the model ----
MaxDim == 5       \* width and height range over 2..MaxDim
MaxBatch == 1     \* pointsPerPost ranges over 1..MaxBatch and the default
QMax == 3         \* the queue on its own holds up to QMax items
MaxCommands == 2      \* the undo stack holds up to MaxCommands filter commands
MaxFactories == 2  \* a shape factory list holds up to MaxFactories classes
CfgDim == 3        \* widths and heights of the configuration sessions: 2..CfgDim
LongW == 33        \* width of the image whose paths outgrow trainingLength
TrainW == 8       \* width of the image of a training session
TrainH == 5       \* its height

VARIABLES
  width, height,        \* this.width, this.height
  greyscale,            \* this.greyscale
  laplace,              \* this.laplace (sparse: DOMAIN = the entries assigned)
  gradient,             \* this.gradient
  gradX, gradY,         \* this.gradX, this.gradY
  working,              \* this.working
  curPoint,             \* this.curPoint
  visited, parents, cost,   \* the search matrices
  pq,                   \* this.pq, the bucket queue
  pointsPerPost,        \* this.pointsPerPost
  newPoints,            \* the value returned by the last doWork call
  interrupted,          \* history: doWork was called while this search was paused
  restarted,            \* history: this state was produced by setPoint in mid-search
  inside, outside,      \* this.inside, this.outside
  trained,              \* this.trained
  trainingPoints,       \* this.trainingPoints
  edgeTraining, gradTraining, insideTraining, outsideTraining,   \* the training tables
  buffer,               \* the buffer doTraining hands to calculateTraining
  thrown,               \* history: the messages of the Errors thrown so far
  shapeFactoryList,     \* ShapeEditor: this.#shapeFactoryList
  currentFactory,       \* ShapeEditor: this.#currentFactory
  shape,                \* ShapeEditor: this.#shape
  anchors,              \* ShapeEditor: the anchors held by each shape group
  filterList,           \* Filter: the keys of this.#filterList (none while it is null)
  activated,            \* history: activate(true) was called last, after setOptions
  resetImage,           \* Threshold: this.#resetImage
  instListeners,        \* the listeners held by each filter instance
  toolListeners,        \* Filter: the listeners held by this.#listenerHandler
  lastImage,            \* App: the image set by setLastImage
  undoStack,            \* App: the commands handed to addToUndoStack
  calls,                \* history: the calls on the app and the command made by the last handler
  notified              \* history: the listeners of the tool called by the last handler

\* what the training methods write
training == <<trained, trainingPoints, edgeTraining, gradTraining, insideTraining,
              outsideTraining, buffer>>

\* what the Scissors search and training leave alone: the errors thrown and the
\* objects of the tools
editor == <<shapeFactoryList, currentFactory, shape, anchors>>
filters == <<filterList, activated, resetImage, instListeners, toolListeners,
             lastImage, undoStack, calls, notified>>
tools == <<thrown, editor, filters>>

\* the fields of the Scissors object
scissors == <<width, height, greyscale, laplace, gradient, gradX, gradY, working,
              curPoint, visited, parents, cost, pq, pointsPerPost, newPoints,
              interrupted, restarted, inside, outside, training>>

vars == <<scissors, tools>>

\* ---- JavaScript values ----
Null == <<>>             \* null / undefined (an absent matrix, queue, parent, result)
NaN == <<"NaN">>         \* the number NaN
Undefined == <<"undefined">>     \* undefined (doWork returned nothing, no image set)
MAX_VALUE == <<"MAX_VALUE">>   \* Number.MAX_VALUE, the "infinite" cost

Pixels(w, h) == {<<x, y>> : x \in 0..(w - 1), y \in 0..(h - 1)}

Max(a, b) == IF a >= b THEN a ELSE b
Min(a, b) == IF a <= b THEN a ELSE b

\* ---- exact arithmetic on trained costs ----
Unit == 12 * 100      \* untrained costs are in units of 1/Unit

\* A trained cost has no SQRT1_2 part; it is kept as <<I, F, D>> = I + F/D with
\* 0 <= F < D and F/D in lowest terms.
RECURSIVE Gcd(_, _)
Gcd(a, b) == IF b = 0 THEN a ELSE Gcd(b, a % b)

Lcm(a, b) == (a \div Gcd(a, b)) * b

TNum(n, d) ==
  LET f == n % d
      g == Gcd(f, d)
  IN <<n \div d, f \div g, d \div g>>

\* an untrained number without SQRT1_2 part, as a trained cost
AsTNum(a) ==
  IF Len(a) = 3 THEN a
  ELSE CHOOSE t \in {TNum(a[1], Unit) : z \in {0} \cap {a[2]}} : TRUE

TAdd(a, b) ==
  LET L == Lcm(a[3], b[3])
      F == a[2] * (L \div a[3]) + b[2] * (L \div b[3])
      t == TNum(F, L)
  IN <<a[1] + b[1] + t[1], t[2], t[3]>>

TLess(a, b) ==
  \/ a[1] < b[1]
  \/ /\ a[1] = b[1]
     /\ LET L == Lcm(a[3], b[3]) IN a[2] * (L \div a[3]) < b[2] * (L \div b[3])

IsTNum(a) == a # NaN /\ a # MAX_VALUE /\ Len(a) = 3

\* ---- exact arithmetic on X + Y*SQRT1_2 ----
\* X + Y*SQRT1_2 >= 0  (SQRT1_2^2 = 1/2, so X*sqrt(2) + Y >= 0)
NonNeg(X, Y) ==
  IF X >= 0 /\ Y >= 0 THEN TRUE
  ELSE IF X < 0 /\ Y < 0 THEN FALSE
  ELSE IF X >= 0 THEN 2 * X * X >= Y * Y
  ELSE Y * Y >= 2 * X * X

\* a < b for numbers (false when either is NaN, as in JavaScript)
Less(a, b) ==
  IF a = NaN \/ b = NaN THEN FALSE
  ELSE IF a = MAX_VALUE THEN FALSE
  ELSE IF b = MAX_VALUE THEN TRUE
  ELSE IF Len(a) = 3 \/ Len(b) = 3 THEN TLess(AsTNum(a), AsTNum(b))
  ELSE ~NonNeg(a[1] - b[1], a[2] - b[2])

\* a <= b for numbers (false when either is NaN)
Leq(a, b) ==
  IF a = NaN \/ b = NaN THEN FALSE
  ELSE IF b = MAX_VALUE THEN TRUE
  ELSE IF a = MAX_VALUE THEN FALSE
  ELSE IF Len(a) = 3 \/ Len(b) = 3 THEN ~TLess(AsTNum(b), AsTNum(a))
  ELSE NonNeg(b[1] - a[1], b[2] - a[2])

\* a + b; NaN is contagious, and MAX_VALUE plus a cost is MAX_VALUE again
Add(a, b) ==
  IF a = NaN \/ b = NaN THEN NaN
  ELSE IF a = MAX_VALUE \/ b = MAX_VALUE THEN MAX_VALUE
  ELSE IF Len(a) = 3 \/ Len(b) = 3 THEN TAdd(AsTNum(a), AsTNum(b))
  ELSE <<a[1] + b[1], a[2] + b[2]>>

\* floor((X + Y*SQRT1_2) / d) for a non-negative number and d > 0
RECURSIVE FloorDiv(_, _, _, _)
FloorDiv(X, Y, d, n) ==
  IF NonNeg(X - d * (n + 1), Y) THEN FloorDiv(X, Y, d, n + 1) ELSE n

\* ---- Field Preprocessor ----
Black == <<0, 0, 0>>
White == <<255, 255, 255>>

\* The pixel buffers explored: a vertical intensity edge at column c (black
\* left of it, white from it on; c = w is the flat black image).
Images(w, h) ==
  {[p \in Pixels(w, h) |-> IF p[1] >= c THEN White ELSE Black] : c \in 1..w}

computeGreyscale(data, w, h) ==
  [p \in Pixels(w, h) |-> (data[p][1] + data[p][2] + data[p][3]) \div (3 * 255)]

GreyW(g) == Cardinality({p \in DOMAIN g : p[2] = 0})   \* greyscale[0].length
GreyH(g) == Cardinality({p \in DOMAIN g : p[1] = 0})   \* greyscale.length

\* greyscale.dx / greyscale.dy: forward difference, backed up one at the end
dx(g, x, y) ==
  LET xx == IF x + 1 = GreyW(g) THEN x - 1 ELSE x
  IN g[<<xx + 1, y>>] - g[<<xx, y>>]

dy(g, x, y) ==
  LET yy == IF y + 1 = GreyH(g) THEN y - 1 ELSE y
  IN g[<<x, yy>>] - g[<<x, yy + 1>>]

\* greyscale.gradMagnitude, squared (0, 1 or 2)
gradMagnitude2(g, x, y) == dx(g, x, y) * dx(g, x, y) + dy(g, x, y) * dy(g, x, y)

\* greyscale.laplace: the 13-tap stencil
greyLaplace(g, x, y) ==
  (-16) * g[<<x, y>>]
  + g[<<x, y - 2>>]
  + g[<<x - 1, y - 1>>] + 2 * g[<<x, y - 1>>] + g[<<x + 1, y - 1>>]
  + g[<<x - 2, y>>] + 2 * g[<<x - 1, y>>] + 2 * g[<<x + 1, y>>] + g[<<x + 2, y>>]
  + g[<<x - 1, y + 1>>] + 2 * g[<<x, y + 1>>] + g[<<x + 1, y + 1>>]
  + g[<<x, y + 2>>]

\* computeGradient.  raw: the magnitudes before scaling (squared); an entry the
\* code copies from a slot that was never assigned is undefined (absent).
\* The last column is copied from column greyscale.length - 2 (the height).
GradientRaw(g) ==
  LET w == GreyW(g)
      h == GreyH(g)
      inner == [p \in Pixels(w - 1, h - 1) |-> gradMagnitude2(g, p[1], p[2])]
      colDom == {<<w - 1, y>> : y \in {yy \in 0..(h - 2) : h - 2 <= w - 2}}
      withCol == [p \in (DOMAIN inner) \cup colDom |->
                    IF p \in DOMAIN inner THEN inner[p] ELSE inner[<<h - 2, p[2]>>]]
      rowDom == {<<i, h - 1>> : i \in {ii \in 0..(w - 1) : <<ii, h - 2>> \in DOMAIN withCol}}
  IN [p \in (DOMAIN withCol) \cup rowDom |->
        IF p \in DOMAIN withCol THEN withCol[p] ELSE withCol[<<p[1], h - 2>>]]

GradientMax2(g) ==
  LET S == {gradMagnitude2(g, p[1], p[2]) : p \in Pixels(GreyW(g) - 1, GreyH(g) - 1)}
  IN IF 2 \in S THEN 2 ELSE IF 1 \in S THEN 1 ELSE 0

\* 1 - raw / max as a number a + b*SQRT1_2, written <<a, b>>:
\* 1 -> <<1,0>>, 1 - 1/sqrt(2) -> <<1,-1>>, 0 -> <<0,0>>; undefined/max and 0/0 are NaN.
computeGradient(g) ==
  LET raw == GradientRaw(g)
      max2 == GradientMax2(g)
  IN [p \in Pixels(GreyW(g), GreyH(g)) |->
        IF p \notin DOMAIN raw \/ max2 = 0 THEN NaN
        ELSE IF raw[p] = 0 THEN <<1, 0>>
        ELSE IF raw[p] = max2 THEN <<0, 0>>
        ELSE <<1, -1>>]

computeLaplace_Inverted(g) ==
  LET w == GreyW(g)
      h == GreyH(g)
      padRows == {0, 1, h - 2, h - 1}
      padDom == {<<i, y>> : i \in {ii \in 1..(h - 1) : ii <= w - 1}, y \in padRows}
      midDom == {<<x, y>> : x \in 0..(w - 1), y \in 2..(h - 3)}
  IN [p \in padDom \cup midDom |->
        IF p[2] \in padRows THEN 1
        ELSE IF p[1] \in {0, 1, w - 2, w - 1} THEN 1
        ELSE IF 100 * greyLaplace(g, p[1], p[2]) > 33 THEN 1 ELSE 0]

\* computeLaplace.  Rows 0, 1, length-2 and length-1 get a 1 in columns
\* 1..greyscale.length-1 only (the padding loops start at 1 and run to the
\* HEIGHT); the rows between are padded left and right and thresholded inside.
\* Entries the code never assigns stay absent.  Columns outside the image are
\* never read and are left out.
computeLaplace(g) ==
  LET w == GreyW(g)
      h == GreyH(g)
      padRows == {0, 1, h - 2, h - 1}
      padDom == {<<i, y>> : i \in {ii \in 1..(h - 1) : ii <= w - 1}, y \in padRows}
      midDom == {<<x, y>> : x \in 0..(w - 1), y \in 2..(h - 3)}
  IN [p \in padDom \cup midDom |->
        IF p[2] \in padRows THEN 1
        ELSE IF p[1] \in {0, 1, w - 2, w - 1} THEN 1
        ELSE IF 100 * greyLaplace(g, p[1], p[2]) > 33 THEN 0 ELSE 1]

computeGradX(g) == [p \in DOMAIN g |-> dx(g, p[1], p[2])]
\* (the last column copies column length-2, which is what dx returns there)

computeGradY(g) == [p \in DOMAIN g |-> dy(g, p[1], p[2])]

\* ---- Cost function ----
\* Costs are in units of 1/Unit: 0.43 = WGrad/Unit, 0.11 * (1/6) = WDir/Unit.
WGrad == 516     \* 0.43
WLap == 516      \* 0.43
WDir == 22       \* 0.11, per sixth: dir is a multiple of 1/6

\* gradUnitVector: the vector (ox, oy) / max(|(ox, oy)|, 1e-100).  It is kept as
\* <<ox, oy, e>>: the integer vector and the exponent e of SQRT1_2 that scales
\* it (|(ox,oy)| is sqrt(2) when both are non-zero, else 1 or 0).
gradUnitVector(gx, gy, p) ==
  <<gx[p], gy[p], IF gx[p] # 0 /\ gy[p] # 0 THEN 1 ELSE 0>>

\* Math.acos(c * SQRT1_2^e) in units of PI/4
AcosUnits(c, e) ==
  CASE c = 0 -> 2
    [] e = 0 /\ c = 1 -> 0
    [] e = 0 /\ c = -1 -> 4
    [] e = 1 /\ c = 1 -> 1
    [] e = 1 /\ c = -1 -> 3
    [] e = 2 /\ c = 2 -> 0
    [] e = 2 /\ c = -2 -> 4

\* gradDirection: (2 / (3 PI)) * (acos(dp) + acos(dq)), in sixths
gradDirection(gx, gy, p, q) ==
  LET u == gradUnitVector(gx, gy, p)
      v == gradUnitVector(gx, gy, q)
      sx == q[1] - p[1]
      sy == q[2] - p[2]
      dp0 == u[2] * sx - u[1] * sy
      dq0 == v[2] * sx - v[1] * sy
      dp == IF dp0 < 0 THEN -dp0 ELSE dp0
      dq == IF dp0 < 0 THEN -dq0 ELSE dq0
      diag == IF p[1] # q[1] /\ p[2] # q[2] THEN 1 ELSE 0
  IN AcosUnits(dp, u[3] + diag) + AcosUnits(dq, v[3] + diag)

\* ---- Training tables ----
trainingLength == 32
minTrainingPoints == 8      \* "if (this.trainingPoints.length < 8)"
gradPointsNeeded == 32
edgeGran == 256
gradGran == 1024
insideGran == 256
outsideGran == 256

\* floor((X + Y*SQRT1_2) / d), known to lie in lo..hi, by bisection
RECURSIVE FloorBisect(_, _, _, _, _)
FloorBisect(X, Y, d, lo, hi) ==
  IF lo >= hi THEN lo
  ELSE LET mid == (lo + hi + 1) \div 2
       IN IF NonNeg(X - d * mid, Y) THEN FloorBisect(X, Y, d, mid, hi)
          ELSE FloorBisect(X, Y, d, lo, mid - 1)

NaNIdx == -1     \* Math.round(NaN): an index that names no bucket

\* getTrainingIdx: Math.round((granularity - 1) * value), for a value
\* (X + Y*SQRT1_2) / D in [0, 1] written <<X, Y, D>>
getTrainingIdx(granularity, value) ==
  IF value = NaN THEN NaNIdx
  ELSE IF value[2] = 0
    THEN (2 * (granularity - 1) * value[1] + value[3]) \div (2 * value[3])
  ELSE FloorBisect(2 * (granularity - 1) * value[1] + value[3],
                   2 * (granularity - 1) * value[2], 2 * value[3], 0, granularity - 1)

\* table entries are fractions <<n, d>> (d > 0) or NaN
FracLess(a, b) == a # NaN /\ b # NaN /\ a[1] * b[2] < b[1] * a[2]
FracMin(a, b) == IF a = NaN \/ b = NaN THEN NaN ELSE IF FracLess(b, a) THEN b ELSE a

\* gaussianBlur(buffer, out): the smoothed buffer, which overwrites out.  The
\* weights are in twentieths; out[0] reads buffer[1] for its third tap too.
gaussianBlur(buf) ==
  IF \E i \in DOMAIN buf : buf[i] = NaN THEN [i \in DOMAIN buf |-> NaN]
  ELSE CHOOSE out \in
    {[i \in DOMAIN buf |->
        IF i = 0 THEN <<8 * buf[0][1] + 10 * buf[1][1] + 2 * buf[1][1], d>>
        ELSE IF i = len - 1
          THEN <<8 * buf[len - 1][1] + 10 * buf[len - 2][1] + 2 * buf[len - 3][1], d>>
        ELSE IF i = len - 2
          THEN <<5 * buf[len - 1][1] + 8 * buf[len - 2][1] + 5 * buf[len - 3][1]
                   + 2 * buf[len - 4][1], d>>
        ELSE IF i = 1
          THEN <<5 * buf[0][1] + 8 * buf[1][1] + 5 * buf[2][1] + 2 * buf[3][1], d>>
        ELSE <<buf[i - 2][1] + 5 * buf[i - 1][1] + 8 * buf[i][1] + 5 * buf[i + 1][1]
                 + buf[i + 2][1], d>>] :
       len \in {Cardinality(DOMAIN buf)}, d \in {20 * buf[0][2]}} : TRUE

\* the largest count of a bucket, at least 1 ("var maxVal = 1")
MaxCount(idx) ==
  LET c(i) == Cardinality({j \in DOMAIN idx : idx[j] = idx[i]})
  IN IF idx = <<>> THEN 1
     ELSE CHOOSE m \in {c(i) : i \in DOMAIN idx} : \A i \in DOMAIN idx : c(i) <= m

\* calculateTraining(buffer, granularity, input, output): the buffer it leaves
\* (1 - count/maxVal per bucket) and the output table, for the input values
\* (numbers <<X, Y, D>>) at the training points pts.  A NaN index adds to no
\* bucket and turns maxVal into NaN, hence every entry.
calculateTraining(pts, granularity, input) ==
  CHOOSE r \in
    {[buffer |-> buf, output |-> gaussianBlur(buf)] :
       buf \in UNION
         {{IF \E i \in DOMAIN idx : idx[i] = NaNIdx
           THEN [k \in 0..(granularity - 1) |-> NaN]
           ELSE [k \in 0..(granularity - 1) |->
                   <<maxVal - Cardinality({i \in DOMAIN idx : idx[i] = k}), maxVal>>] :
             maxVal \in {MaxCount(idx)}} :
          idx \in {[i \in DOMAIN pts |-> getTrainingIdx(granularity, input[pts[i]])]}}} : TRUE

\* addInStaticGrad(have, need): the gradient table capped by the linear ramp
\* 1 - i * (need - have) / (need * gradGran)
addInStaticGrad(table, have, need) ==
  [i \in DOMAIN table |->
     FracMin(table[i], <<need * gradGran - i * (need - have), need * gradGran>>)]

\* getTrainedEdge / Grad / Inside / Outside: the table entry of the value's
\* bucket; an entry the table does not hold is undefined (NaN once multiplied)
TableEntry(table, granularity, value) ==
  LET i == getTrainingIdx(granularity, value)
  IN IF i \in DOMAIN table THEN table[i] ELSE NaN

getTrainedEdge(edge) == TableEntry(edgeTraining, edgeGran, edge)
getTrainedGrad(grad) == TableEntry(gradTraining, gradGran, grad)
getTrainedInside(v) == TableEntry(insideTraining, insideGran, v)
getTrainedOutside(v) == TableEntry(outsideTraining, outsideGran, v)

\* the trained weights: 0.3*gradT + 0.3*lap + 0.1*(dir + edgeT + insideT + outsideT)
TrainedDist(gradT, lap, dir, edgeT, insideT, outsideT) ==
  IF NaN \in {gradT, edgeT, insideT, outsideT} THEN NaN
  ELSE TAdd(TAdd(TNum(3 * gradT[1], 10 * gradT[2]), TNum(18 * lap + dir, 60)),
            TAdd(TNum(edgeT[1], 10 * edgeT[2]),
                 TAdd(TNum(insideT[1], 10 * insideT[2]),
                      TNum(outsideT[1], 10 * outsideT[2]))))

\* dist(px, py, qx, qy).  Untrained: 0.43*grad + 0.43*lap + 0.11*dir.
dist(grad, lapl, gx, gy, p, q) ==
  LET g == grad[q]
      axis == p[1] = q[1] \/ p[2] = q[2]
      dir == gradDirection(gx, gy, p, q)
  IN IF g = NaN \/ q \notin DOMAIN lapl THEN NaN
     ELSE IF trained
       THEN TrainedDist(getTrainedGrad(IF axis THEN <<g[2], 2 * g[1], 2>>
                                       ELSE <<g[1], g[2], 1>>),
                        lapl[q], dir,
                        getTrainedEdge(<<greyscale[p], 0, 1>>),
                        getTrainedInside(<<inside[p], 0, 1>>),
                        getTrainedOutside(<<outside[p], 0, 1>>))
     ELSE IF axis
       THEN \* grad *= SQRT1_2: (a + b R) R = b/2 + a R
            <<(WGrad \div 2) * g[2] + WLap * lapl[q] + WDir * dir, WGrad * g[1]>>
       ELSE <<WGrad * g[1] + WLap * lapl[q] + WDir * dir, WGrad * g[2]>>

\* adj(p): the up to 8 neighbours inside the greyscale, row by row
adj(g, p) ==
  LET sx == Max(p[1] - 1, 0)
      sy == Max(p[2] - 1, 0)
      ex == Min(p[1] + 1, GreyW(g) - 1)
      ey == Min(p[2] + 1, GreyH(g) - 1)
      nx == ex - sx + 1
      all == [i \in 1..(nx * (ey - sy + 1)) |->
                <<sx + ((i - 1) % nx), sy + ((i - 1) \div nx)>>]
  IN SelectSeq(all, LAMBDA q : q # p)

\* ---- Training fields ----
edgeWidth == 2

\* Math.round(d * c * SQRT1_2^e) for a component c * SQRT1_2^e of a unit
\* vector (c in -1..1): d * c, or c times the rounding of d * SQRT1_2
RoundAlong(d, c, e) ==
  IF e = 0 THEN d * c ELSE c * FloorDiv(1, 2 * d, 2, 0)

\* computeSides: the greyscale d pixels off each point, across the gradient
computeSides(d, gx, gy, g) ==
  LET w == GreyW(g)
      h == GreyH(g)
      guv(p) == gradUnitVector(gx, gy, p)
      ix(p) == Max(Min(p[1] + RoundAlong(d, guv(p)[2], guv(p)[3]), w - 1), 0)
      iy(p) == Max(Min(p[2] - RoundAlong(d, guv(p)[1], guv(p)[3]), h - 1), 0)
      ox(p) == Max(Min(p[1] - RoundAlong(d, guv(p)[2], guv(p)[3]), w - 1), 0)
      oy(p) == Max(Min(p[2] + RoundAlong(d, guv(p)[1], guv(p)[3]), h - 1), 0)
  IN [inside |-> [p \in DOMAIN g |-> g[<<ix(p), iy(p)>>]],
      outside |-> [p \in DOMAIN g |-> g[<<ox(p), oy(p)>>]]]

\* ---- Bucket priority queue (./bucketQueue) ----
searchGranBits == 8
searchGran == 1      \* 1 << this.earchGranBits: the shift count is undefined, i.e. 0
bucketCount == 2 ^ searchGranBits

\* The cost functor setPoint gives the queue: Math.round(searchGran * cost).
\* Number.MAX_VALUE is (2^53 - 1) * 2^971, an integer multiple of bucketCount.
costFunctor(c) ==
  IF c = MAX_VALUE THEN bucketCount
  ELSE IF Len(c) = 3 THEN searchGran * c[1] + (2 * searchGran * c[2] + c[3]) \div (2 * c[3])
  ELSE FloorDiv(searchGran * c[1] + (Unit \div 2), searchGran * c[2], Unit, 0)

getBucket(c) == costFunctor(c) % bucketCount

\* The queue is its pending entries <<item, bucket>> in the order they were
\* pushed (the bucket an entry sits in is the one computed when it was pushed)
\* and loc, the bucket the rotating scan stands at.
NewBucketQueue == [items |-> <<>>, loc |-> 0]

isEmpty(q) == Len(q.items) = 0

push(q, item, costArr) ==
  [q EXCEPT !.items = Append(@, <<item, getBucket(costArr[item])>>)]

\* the first non-empty bucket scanning forward from loc, wrapping around
ScanBucket(q) ==
  LET used == {q.items[i][2] : i \in 1..Len(q.items)}
      off(b) == (b - q.loc + bucketCount) % bucketCount
  IN CHOOSE b \in used : \A c \in used : off(b) <= off(c)

FirstIndex(items, e) ==
  CHOOSE i \in 1..Len(items) : items[i] = e /\ \A j \in 1..(i - 1) : items[j] # e

RemoveAt(items, i) == SubSeq(items, 1, i - 1) \o SubSeq(items, i + 1, Len(items))

\* pop: the oldest entry of the first non-empty bucket
pop(q) ==
  LET b == ScanBucket(q)
      i == CHOOSE k \in 1..Len(q.items) :
             q.items[k][2] = b /\ \A j \in 1..(k - 1) : q.items[j][2] # b
  IN [item |-> q.items[i][1], queue |-> [items |-> RemoveAt(q.items, i), loc |-> b]]

\* remove: takes the item out of the bucket its current cost selects; a no-op
\* when it is not there
remove(q, item, costArr) ==
  LET e == <<item, getBucket(costArr[item])>>
  IN IF \E i \in 1..Len(q.items) : q.items[i] = e
     THEN [q EXCEPT !.items = RemoveAt(@, FirstIndex(@, e))]
     ELSE q

\* ---- Shape editor (tools/editor.js) ----
\* The shape groups of the drawing layer.  A shape is its parent group and
\* whether it sits in a layer; a factory class is the set of groups its
\* isFactoryGroup accepts; a factory list is a sequence of classes, its keys
\* the indices in order.
Groups == {"ruler-group", "circle-group"}
Shapes == [parent : Groups, layer : BOOLEAN]
FactoryClasses == SUBSET Groups
FactoryLists == UNION {[1..n -> FactoryClasses] : n \in 0..MaxFactories}

CouldNotFindFactory == "Could not find a factory to update shape."

isFactoryGroup(factory, group) == group \in factory.class

\* new this.#shapeFactoryList[key]
NewFactory(list, key) == [key |-> key, class |-> list[key]]

setFactoryList(list) ==
  /\ shapeFactoryList' = list
  /\ UNCHANGED <<scissors, thrown, currentFactory, shape, anchors, filters>>

RECURSIVE FindFactory_NoBreak(_, _, _)
FindFactory_NoBreak(list, group, i) ==
  IF i > Len(list) THEN Null
  ELSE LET later == FindFactory_NoBreak(list, group, i + 1)
       IN IF later # Null THEN later
          ELSE IF isFactoryGroup(NewFactory(list, i), group) THEN NewFactory(list, i)
          ELSE Null

\* the loop of setShape: the factory of the first key from i on whose
\* isFactoryGroup accepts the group, null when there is none
RECURSIVE FindFactory(_, _, _)
FindFactory(list, group, i) ==
  IF i > Len(list) THEN Null
  ELSE IF isFactoryGroup(NewFactory(list, i), group) THEN NewFactory(list, i)
  ELSE FindFactory(list, group, i + 1)

\* #removeAnchors and #addAnchors: the anchors of the shape's group are
\* removed; getAnchors of the factory found gives the new ones, added when the
\* shape sits in a layer
setShape(inshape) ==
  /\ shape' = inshape
  /\ IF inshape = Null
     THEN UNCHANGED <<currentFactory, anchors, thrown>>
     ELSE \E found \in {FindFactory(shapeFactoryList, inshape.parent, 1)} :
            /\ currentFactory' = found
            /\ IF found = Null
               THEN /\ thrown' = thrown \cup {CouldNotFindFactory}
                    /\ anchors' = [anchors EXCEPT ![inshape.parent] = {}]
               ELSE /\ thrown' = thrown
                    /\ anchors' = [anchors EXCEPT ![inshape.parent] =
                                     IF inshape.layer THEN {found.key} ELSE {}]
  /\ UNCHANGED <<scissors, shapeFactoryList, filters>>

\* The caller sets the factory list before it hands over a shape.
EditorNext ==
  \/ \E list \in FactoryLists : setFactoryList(list)
  \/ shapeFactoryList # Null /\ \E inshape \in Shapes : setShape(inshape)
  \/ setShape(Null)

\* ---- Filter tool (tools/filter.js) ----
\* The options name the filter classes by their own names.  An image is the
\* loaded image followed by the names of the filters applied to it.
FilterNames == {"Threshold", "Sharpen"}
EventTypes == {"filterrun", "filterundo"}        \* getEventNames
Callbacks == {"onFilter"}                        \* the callbacks of the application
ToolFireEvent == "Filter.#fireEvent"             \* the callback activate registers
LoadedImage == <<"image">>

\* ListenerHandler: the callbacks held by type; fireEvent calls those of the
\* type of the event
addListener(listeners, type, callback) == listeners \cup {<<type, callback>>}
removeListener(listeners, type, callback) == listeners \ {<<type, callback>>}
fireEvent(listeners, event) == {l[2] : l \in {x \in listeners : x[1] = event[1]}}

\* this.filterList, the public property that activate, hasFilter and
\* getFilterList read: nothing assigns it, a for..in loop finds no key in it
thisFilterList == {}

\* Filter.activate(bool): the listeners are added to or removed from the
\* filters of this.filterList
activate(bool) ==
  /\ instListeners' =
       [k \in FilterNames |->
          IF k \notin thisFilterList THEN instListeners[k]
          ELSE IF bool
          THEN addListener(addListener(instListeners[k], "filterrun", ToolFireEvent),
                           "filter-undo", ToolFireEvent)
          ELSE removeListener(removeListener(instListeners[k], "filterrun", ToolFireEvent),
                              "filter-undo", ToolFireEvent)]
  /\ activated' = bool
  /\ calls' = <<>>
  /\ notified' = {}
  /\ UNCHANGED <<scissors, thrown, editor, filterList, resetImage, toolListeners,
                 lastImage, undoStack>>

\* Filter.setOptions(options): a new instance of each class of the options
setOptions(options) ==
  /\ filterList' = options
  /\ instListeners' = [k \in FilterNames |-> {}]
  /\ resetImage' = TRUE
  /\ activated' = FALSE
  /\ calls' = <<>>
  /\ notified' = {}
  /\ UNCHANGED <<scissors, thrown, editor, toolListeners, lastImage, undoStack>>

\* Filter.addEventListener / removeEventListener
addEventListener(type, callback) ==
  /\ toolListeners' = addListener(toolListeners, type, callback)
  /\ calls' = <<>>
  /\ notified' = {}
  /\ UNCHANGED <<scissors, thrown, editor, filterList, activated, resetImage,
                 instListeners, lastImage, undoStack>>

removeEventListener(type, callback) ==
  /\ toolListeners' = removeListener(toolListeners, type, callback)
  /\ calls' = <<>>
  /\ notified' = {}
  /\ UNCHANGED <<scissors, thrown, editor, filterList, activated, resetImage,
                 instListeners, lastImage, undoStack>>

\* A command is [name, original]: the filter's name and its original image.
update(c) == Append(c.original, c.name)           \* filter.update()
getOriginalImage(c) == c.original
getName(c) == "Filter-" \o c.name

\* the #fireEvent of filter instance key, which run gives the command as
\* onExecute and onUndo: the listeners of the instance are called, and
\* Filter.#fireEvent among them calls the listeners of the tool
InstanceFireEvent(key, event) ==
  IF ToolFireEvent \in fireEvent(instListeners[key], event)
  THEN {<<cb, event>> : cb \in fireEvent(toolListeners, event)}
  ELSE {}

ExecuteCalls_NotifiesFirst(c) ==
  << <<"onExecute", <<"filterrun", getName(c)>>>>,
     <<"setLastImage", update(c)>>,
     <<"render", <<0>>>> >>

\* the calls of RunFilterCommand.execute(), in order
ExecuteCalls(c) ==
  << <<"setLastImage", update(c)>>,
     <<"render", <<0>>>>,
     <<"onExecute", <<"filterrun", getName(c)>>>> >>

\* the calls of RunFilterCommand.undo(), in order
UndoCalls(c) ==
  << <<"setLastImage", getOriginalImage(c)>>,
     <<"render", <<0>>>>,
     <<"onUndo", <<"filterundo", getName(c)>>>> >>

\* the image the app holds after the calls cs
RECURSIVE ImageAfter(_, _)
ImageAfter(cs, image) ==
  IF cs = <<>> THEN image
  ELSE ImageAfter(Tail(cs), IF Head(cs)[1] = "setLastImage" THEN Head(cs)[2] ELSE image)

\* the listeners of the tool that the callbacks among the calls cs reach
Notified(key, cs) ==
  UNION {InstanceFireEvent(key, cs[i][2]) :
           i \in {j \in DOMAIN cs : cs[j][1] \in {"onExecute", "onUndo"}}}

\* run(args) of the filter instance key: the command is built, executed and
\* handed to the undo stack.  Threshold sets the original image only after a
\* reset.
run(key) ==
  /\ key \in filterList
  /\ Len(undoStack) < MaxCommands
  /\ \E c \in {[name |-> key,
               original |-> IF key = "Threshold" /\ ~resetImage
                            THEN Undefined ELSE lastImage]} :
        /\ calls' = ExecuteCalls(c) \o << <<"addToUndoStack", <<c.name>>>> >>
        /\ lastImage' = ImageAfter(ExecuteCalls(c), lastImage)
        /\ notified' = Notified(key, ExecuteCalls(c))
        /\ undoStack' = Append(undoStack, c)
  /\ resetImage' = IF key = "Threshold" THEN FALSE ELSE resetImage
  /\ UNCHANGED <<scissors, thrown, editor, filterList, activated, instListeners,
                 toolListeners>>

\* RunFilterCommand.execute() of a command of the undo stack (a redo)
execute(i) ==
  /\ i \in DOMAIN undoStack
  /\ calls' = ExecuteCalls(undoStack[i])
  /\ lastImage' = ImageAfter(ExecuteCalls(undoStack[i]), lastImage)
  /\ notified' = Notified(undoStack[i].name, ExecuteCalls(undoStack[i]))
  /\ UNCHANGED <<scissors, thrown, editor, filterList, activated, resetImage,
                 instListeners, toolListeners, undoStack>>

\* RunFilterCommand.undo() of a command of the undo stack
undo(i) ==
  /\ i \in DOMAIN undoStack
  /\ calls' = UndoCalls(undoStack[i])
  /\ lastImage' = ImageAfter(UndoCalls(undoStack[i]), lastImage)
  /\ notified' = Notified(undoStack[i].name, UndoCalls(undoStack[i]))
  /\ UNCHANGED <<scissors, thrown, editor, filterList, activated, resetImage,
                 instListeners, toolListeners, undoStack>>

\* The options are set before any filter runs.
FilterNext ==
  \/ undoStack = <<>> /\ \E options \in SUBSET FilterNames : setOptions(options)
  \/ \E bool \in BOOLEAN : activate(bool)
  \/ \E type \in EventTypes, callback \in Callbacks : addEventListener(type, callback)
  \/ \E type \in EventTypes, callback \in Callbacks : removeEventListener(type, callback)
  \/ \E key \in FilterNames : run(key)
  \/ \E i \in 1..MaxCommands : execute(i)
  \/ \E i \in 1..MaxCommands : undo(i)

\* ---- Scissors ----
pointsPerPostDefault == 500

\* The tools as constructed, and no error thrown yet.
ToolsInit ==
  /\ thrown = {}
  /\ shapeFactoryList = Null
  /\ currentFactory = Null
  /\ shape = Null
  /\ anchors = [g \in Groups |-> {}]
  /\ filterList = {}
  /\ activated = FALSE
  /\ resetImage = TRUE
  /\ instListeners = [k \in FilterNames |-> {}]
  /\ toolListeners = {}
  /\ lastImage = LoadedImage
  /\ undoStack = <<>>
  /\ calls = <<>>
  /\ notified = {}

\* constructor.  pointsPerPost is a public field, 500 unless the caller
\* configures a smaller batch.
Init ==
  /\ width = -1
  /\ height = -1
  /\ curPoint = Null
  /\ greyscale = Null
  /\ laplace = Null
  /\ gradient = Null
  /\ gradX = Null
  /\ gradY = Null
  /\ parents = Null
  /\ visited = Null
  /\ cost = Null
  /\ pq = Null
  /\ working = FALSE
  /\ pointsPerPost \in (1..MaxBatch) \cup {pointsPerPostDefault}
  /\ newPoints = Undefined
  /\ interrupted = FALSE
  /\ restarted = FALSE
  /\ inside = Null
  /\ outside = Null
  /\ trained = FALSE
  /\ trainingPoints = Null
  /\ edgeTraining = Null
  /\ gradTraining = Null
  /\ insideTraining = Null
  /\ outsideTraining = Null
  /\ buffer = Null
  /\ ToolsInit

setDimensions(w, h) ==
  /\ width' = w
  /\ height' = h
  /\ UNCHANGED <<greyscale, laplace, gradient, gradX, gradY, working, curPoint,
                 visited, parents, cost, pq, pointsPerPost, newPoints,
                 interrupted, restarted,
                 inside, outside, training, tools>>

DimensionsNotSet == "Dimensions have not been set."

setData_ChecksAfterGreyscale(data) ==
  \/ /\ (width = -1 \/ height = -1)
     /\ thrown' = thrown \cup {DimensionsNotSet}
     /\ greyscale' = computeGreyscale(data, GreyW(data), GreyH(data))
     /\ UNCHANGED <<width, height, laplace, gradient, gradX, gradY, working,
                    curPoint, visited, parents, cost, pq, pointsPerPost, newPoints,
                    interrupted, restarted, inside, outside, training, editor, filters>>
  \/ /\ ~(width = -1 \/ height = -1)
     /\ \E g \in {computeGreyscale(data, width, height)} :
           /\ greyscale' = g
           /\ laplace' = computeLaplace(g)
           /\ gradient' = computeGradient(g)
           /\ gradX' = computeGradX(g)
           /\ gradY' = computeGradY(g)
           /\ \E sides \in {computeSides(edgeWidth, computeGradX(g), computeGradY(g), g)} :
                 inside' = sides.inside /\ outside' = sides.outside
     /\ edgeTraining' = <<>>
     /\ gradTraining' = <<>>
     /\ insideTraining' = <<>>
     /\ outsideTraining' = <<>>
     /\ UNCHANGED <<width, height, working, curPoint, visited, parents, cost, pq,
                    pointsPerPost, newPoints, interrupted, restarted,
                    trained, trainingPoints, buffer, tools>>

\* setData: throws before anything is assigned while a dimension is -1
setData(data) ==
  \/ /\ (width = -1 \/ height = -1)
     /\ thrown' = thrown \cup {DimensionsNotSet}
     /\ UNCHANGED <<width, height, greyscale, laplace, gradient, gradX, gradY, working,
                    curPoint, visited, parents, cost, pq, pointsPerPost, newPoints,
                    interrupted, restarted, inside, outside, training, editor, filters>>
  \/ /\ ~(width = -1 \/ height = -1)
     /\ \E g \in {computeGreyscale(data, width, height)} :
           /\ greyscale' = g
           /\ laplace' = computeLaplace(g)
           /\ gradient' = computeGradient(g)
           /\ gradX' = computeGradX(g)
           /\ gradY' = computeGradY(g)
           /\ \E sides \in {computeSides(edgeWidth, computeGradX(g), computeGradY(g), g)} :
                 inside' = sides.inside /\ outside' = sides.outside
     /\ edgeTraining' = <<>>
     /\ gradTraining' = <<>>
     /\ insideTraining' = <<>>
     /\ outsideTraining' = <<>>
     /\ UNCHANGED <<width, height, working, curPoint, visited, parents, cost, pq,
                    pointsPerPost, newPoints, interrupted, restarted,
                    trained, trainingPoints, buffer, tools>>

setWorking_DropsQueue(w) ==
  /\ working' = w
  /\ pq' = IF w \/ pq = Null THEN pq ELSE NewBucketQueue
  /\ UNCHANGED <<width, height, greyscale, laplace, gradient, gradX, gradY,
                 curPoint, visited, parents, cost, pointsPerPost, newPoints,
                 interrupted, restarted,
                 inside, outside, training, tools>>

setWorking_ForgetsTraining(w) ==
  /\ working' = w
  /\ trained' = (trained /\ w)
  /\ UNCHANGED <<width, height, greyscale, laplace, gradient, gradX, gradY,
                 curPoint, visited, parents, cost, pq, pointsPerPost, newPoints,
                 interrupted, restarted, inside, outside, trainingPoints,
                 edgeTraining, gradTraining, insideTraining, outsideTraining, buffer,
                 tools>>

setWorking(w) ==
  /\ working' = w
  /\ UNCHANGED <<width, height, greyscale, laplace, gradient, gradX, gradY,
                 curPoint, visited, parents, cost, pq, pointsPerPost, newPoints,
                 interrupted, restarted,
                 inside, outside, training, tools>>

\* The search state setPoint builds, as a record: visited all false, no
\* parents, every cost MAX_VALUE; the seed is pushed while its cost is still
\* MAX_VALUE and only then set to 0.
FreshOver_NoSeedCost(P, cost0, sp) ==
  [visited |-> [p \in P |-> FALSE],
   parents |-> [p \in P |-> Null],
   cost |-> cost0,
   pq |-> push(NewBucketQueue, sp, cost0)]

FreshOver_KeepsParents(P, cost0, sp) ==
  [visited |-> [p \in P |-> FALSE],
   parents |-> IF parents = Null THEN [p \in P |-> Null] ELSE parents,
   cost |-> [cost0 EXCEPT ![sp] = <<0, 0>>],
   pq |-> push(NewBucketQueue, sp, cost0)]

FreshOver_KeepsCost(P, cost0, sp) ==
  [visited |-> [p \in P |-> FALSE],
   parents |-> [p \in P |-> Null],
   cost |-> IF cost = Null THEN [cost0 EXCEPT ![sp] = <<0, 0>>]
            ELSE [cost EXCEPT ![sp] = <<0, 0>>],
   pq |-> push(NewBucketQueue, sp, cost0)]

FreshOver(P, cost0, sp) ==
  [visited |-> [p \in P |-> FALSE],
   parents |-> [p \in P |-> Null],
   cost |-> [cost0 EXCEPT ![sp] = <<0, 0>>],
   pq |-> push(NewBucketQueue, sp, cost0)]

FreshSearch(w, h, sp) ==
  FreshOver(Pixels(w, h), [p \in Pixels(w, h) |-> MAX_VALUE], sp)

setPoint(sp) ==
  /\ working' = TRUE
  /\ curPoint' = sp
  /\ newPoints' = Undefined
  /\ interrupted' = FALSE
  /\ restarted' = (pq # Null /\ ~isEmpty(pq) /\ \E p \in DOMAIN visited : visited[p])
  /\ UNCHANGED <<width, height, greyscale, laplace, gradient, gradX, gradY,
                 pointsPerPost,
                 inside, outside, training, tools>>
  /\ \E s \in {FreshSearch(width, height, sp)} :
        /\ visited' = s.visited
        /\ parents' = s.parents
        /\ cost' = s.cost
        /\ pq' = s.pq

Relax_ParentIsSelf(s, p, q) ==
  LET pqCost == Add(s.cost[p], dist(gradient, laplace, gradX, gradY, p, q))
  IN IF Less(pqCost, s.cost[q])
     THEN LET q1 == IF s.cost[q] # MAX_VALUE THEN remove(s.pq, q, s.cost) ELSE s.pq
              cost1 == [s.cost EXCEPT ![q] = pqCost]
          IN [s EXCEPT !.cost = cost1,
                       !.parents = [@ EXCEPT ![q] = q],
                       !.pq = push(q1, q, cost1)]
     ELSE s

Relax_RemovesAfterWrite(s, p, q) ==
  LET pqCost == Add(s.cost[p], dist(gradient, laplace, gradX, gradY, p, q))
  IN IF Less(pqCost, s.cost[q])
     THEN LET cost1 == [s.cost EXCEPT ![q] = pqCost]
              q1 == IF s.cost[q] # MAX_VALUE THEN remove(s.pq, q, cost1) ELSE s.pq
          IN [s EXCEPT !.cost = cost1,
                       !.parents = [@ EXCEPT ![q] = p],
                       !.pq = push(q1, q, cost1)]
     ELSE s

Relax_AlwaysReparents(s, p, q) ==
  LET pqCost == Add(s.cost[p], dist(gradient, laplace, gradX, gradY, p, q))
  IN IF Less(pqCost, s.cost[q])
     THEN LET q1 == IF s.cost[q] # MAX_VALUE THEN remove(s.pq, q, s.cost) ELSE s.pq
              cost1 == [s.cost EXCEPT ![q] = pqCost]
          IN [s EXCEPT !.cost = cost1,
                       !.parents = [@ EXCEPT ![q] = p],
                       !.pq = push(q1, q, cost1)]
     ELSE [s EXCEPT !.parents = [@ EXCEPT ![q] = p]]

Relax_ReparentsVisited(s, p, q) ==
  LET pqCost == Add(s.cost[p], dist(gradient, laplace, gradX, gradY, p, q))
  IN IF Less(pqCost, s.cost[q])
     THEN LET q1 == IF s.cost[q] # MAX_VALUE THEN remove(s.pq, q, s.cost) ELSE s.pq
              cost1 == [s.cost EXCEPT ![q] = pqCost]
          IN [s EXCEPT !.cost = cost1,
                       !.parents = [@ EXCEPT ![q] = p],
                       !.pq = push(q1, q, cost1)]
     ELSE IF s.visited[q] THEN [s EXCEPT !.parents = [@ EXCEPT ![q] = p]] ELSE s

\* One neighbour q of the popped pixel p (the body of doWork's for loop).
Relax(s, p, q) ==
  LET pqCost == Add(s.cost[p], dist(gradient, laplace, gradX, gradY, p, q))
  IN IF Less(pqCost, s.cost[q])
     THEN LET q1 == IF s.cost[q] # MAX_VALUE
                    THEN remove(s.pq, q, s.cost)   \* already in PQ
                    ELSE s.pq
              cost1 == [s.cost EXCEPT ![q] = pqCost]
          IN [s EXCEPT !.cost = cost1,
                       !.parents = [@ EXCEPT ![q] = p],
                       !.pq = push(q1, q, cost1)]
     ELSE s

RECURSIVE RelaxAll(_, _, _, _)
RelaxAll(s, p, adjList, i) ==
  IF i > Len(adjList) THEN s
  ELSE RelaxAll(Relax(s, p, adjList[i]), p, adjList, i + 1)

\* One iteration of doWork's while loop.
WorkStep(s) ==
  LET r == pop(s.pq)
      p == r.item
      s1 == [s EXCEPT !.pq = r.queue,
                      !.newPoints = Append(Append(@, p), s.parents[p]),
                      !.visited = [@ EXCEPT ![p] = TRUE]]
  IN RelaxAll(s1, p, adj(greyscale, p), 1)

RECURSIVE WorkLoop(_, _, _)
WorkLoop(s, pointCount, limit) ==
  IF ~isEmpty(s.pq) /\ pointCount < limit
  THEN WorkLoop(WorkStep(s), pointCount + 1, limit)
  ELSE s

\* ---- Training calls ----
\* findTrainingPoints(p): p and its ancestors, trainingLength of them at most
RECURSIVE ParentChain(_, _)
ParentChain(p, n) ==
  IF n = 0 \/ p = Null THEN <<>>
  ELSE <<p>> \o ParentChain(parents[p], n - 1)

findTrainingPoints(p) ==
  IF parents # Null THEN ParentChain(p, trainingLength) ELSE <<>>

\* the matrices as numbers <<X, Y, D>>
AsNumbers(matrix) == [p \in DOMAIN matrix |-> <<matrix[p], 0, 1>>]
GradientNumbers ==
  [p \in DOMAIN gradient |->
     IF gradient[p] = NaN THEN NaN ELSE <<gradient[p][1], gradient[p][2], 1>>]

doTraining_ResetsOnShort(p) ==
  \E pts \in {findTrainingPoints(p)} :
    /\ trainingPoints' = pts
    /\ IF Len(pts) < minTrainingPoints
       THEN /\ trained' = FALSE
            /\ UNCHANGED <<edgeTraining, gradTraining, insideTraining,
                           outsideTraining, buffer>>
       ELSE \E e \in {calculateTraining(pts, edgeGran, AsNumbers(greyscale))},
               g \in {calculateTraining(pts, gradGran, GradientNumbers)},
               i \in {calculateTraining(pts, insideGran, AsNumbers(inside))},
               o \in {calculateTraining(pts, outsideGran, AsNumbers(outside))} :
              /\ edgeTraining' = e.output
              /\ gradTraining' = IF Len(pts) < gradPointsNeeded
                                 THEN addInStaticGrad(g.output, Len(pts), gradPointsNeeded)
                                 ELSE g.output
              /\ insideTraining' = i.output
              /\ outsideTraining' = o.output
              /\ buffer' = o.buffer
              /\ trained' = TRUE
    /\ UNCHANGED <<width, height, greyscale, laplace, gradient, gradX, gradY, working,
                   curPoint, visited, parents, cost, pq, pointsPerPost, newPoints,
                   interrupted, restarted, inside, outside, tools>>

doTraining_NeverBlends(p) ==
  \E pts \in {findTrainingPoints(p)} :
    /\ trainingPoints' = pts
    /\ IF Len(pts) < minTrainingPoints
       THEN UNCHANGED <<trained, edgeTraining, gradTraining, insideTraining,
                        outsideTraining, buffer>>
       ELSE \E e \in {calculateTraining(pts, edgeGran, AsNumbers(greyscale))},
               g \in {calculateTraining(pts, gradGran, GradientNumbers)},
               i \in {calculateTraining(pts, insideGran, AsNumbers(inside))},
               o \in {calculateTraining(pts, outsideGran, AsNumbers(outside))} :
              /\ edgeTraining' = e.output
              /\ gradTraining' = g.output
              /\ insideTraining' = i.output
              /\ outsideTraining' = o.output
              /\ buffer' = o.buffer
              /\ trained' = TRUE
    /\ UNCHANGED <<width, height, greyscale, laplace, gradient, gradX, gradY, working,
                   curPoint, visited, parents, cost, pq, pointsPerPost, newPoints,
                   interrupted, restarted, inside, outside, tools>>

doTraining(p) ==
  \E pts \in {findTrainingPoints(p)} :
    /\ trainingPoints' = pts
    /\ IF Len(pts) < minTrainingPoints
       THEN UNCHANGED <<trained, edgeTraining, gradTraining, insideTraining,
                        outsideTraining, buffer>>
       ELSE \E e \in {calculateTraining(pts, edgeGran, AsNumbers(greyscale))},
               g \in {calculateTraining(pts, gradGran, GradientNumbers)},
               i \in {calculateTraining(pts, insideGran, AsNumbers(inside))},
               o \in {calculateTraining(pts, outsideGran, AsNumbers(outside))} :
              /\ edgeTraining' = e.output
              /\ gradTraining' = IF Len(pts) < gradPointsNeeded
                                 THEN addInStaticGrad(g.output, Len(pts), gradPointsNeeded)
                                 ELSE g.output
              /\ insideTraining' = i.output
              /\ outsideTraining' = o.output
              /\ buffer' = o.buffer
              /\ trained' = TRUE
    /\ UNCHANGED <<width, height, greyscale, laplace, gradient, gradX, gradY, working,
                   curPoint, visited, parents, cost, pq, pointsPerPost, newPoints,
                   interrupted, restarted, inside, outside, tools>>

resetTraining ==
  /\ trained' = FALSE
  /\ UNCHANGED <<width, height, greyscale, laplace, gradient, gradX, gradY, working,
                 curPoint, visited, parents, cost, pq, pointsPerPost, newPoints,
                 interrupted, restarted, inside, outside, trainingPoints,
                 edgeTraining, gradTraining, insideTraining, outsideTraining, buffer,
                 tools>>

\* doWork past its working check: the loop, and the batch it returns
RunBatch ==
  /\ \E s \in {WorkLoop([visited |-> visited, parents |-> parents, cost |-> cost,
                          pq |-> pq, newPoints |-> <<>>], 0, pointsPerPost)} :
        /\ visited' = s.visited
        /\ parents' = s.parents
        /\ cost' = s.cost
        /\ pq' = s.pq
        /\ newPoints' = s.newPoints
  /\ restarted' = FALSE
  /\ UNCHANGED <<width, height, greyscale, laplace, gradient, gradX, gradY,
                 working, curPoint, pointsPerPost, interrupted,
                 inside, outside, training, tools>>

doWork_IgnoresWorking ==
  \/ pq = Null /\ UNCHANGED vars
  \/ pq # Null /\ RunBatch

doWork ==
  \/ /\ ~working                  \* return;
     /\ newPoints' = Undefined
     /\ interrupted' = (interrupted \/ (pq # Null /\ ~isEmpty(pq)))
     /\ UNCHANGED <<width, height, greyscale, laplace, gradient, gradX, gradY,
                    working, curPoint, visited, parents, cost, pq, pointsPerPost,
                    restarted,
                 inside, outside, training, tools>>
  \/ /\ working
     /\ pq = Null                 \* this.pq is undefined: TypeError, nothing changes
     /\ UNCHANGED vars
  \/ /\ working
     /\ pq # Null
     /\ RunBatch

\* The caller follows the input protocol: setDimensions, then setData (one
\* image per session), then seeds inside the image.
Next ==
  \/ width = -1 /\ \E w \in 2..MaxDim, h \in 2..MaxDim : setDimensions(w, h)
  \/ width # -1 /\ greyscale = Null /\ \E data \in Images(width, height) : setData(data)
  \/ greyscale # Null /\ \E sp \in Pixels(width, height) : setPoint(sp)
  \/ \E w \in BOOLEAN : setWorking(w)
  \/ doWork

Spec == Init /\ [][Next]_vars

\* ---- Training sessions ----
\* Training needs a path of 8 points, so these sessions run on a TrainW x
\* TrainH image (row 2 is its one row whose Laplace entries are all assigned),
\* with the default batch: one doWork finishes a search.
TrainImages ==
  {[p \in Pixels(TrainW, TrainH) |-> IF p[1] >= c THEN White ELSE Black] : c \in {3, 5}}

TrainSeeds == {<<0, 2>>}
TrainTargets == {<<4, 2>>, <<7, 2>>}

InitTrain ==
  /\ width = -1
  /\ height = -1
  /\ curPoint = Null
  /\ greyscale = Null
  /\ laplace = Null
  /\ gradient = Null
  /\ gradX = Null
  /\ gradY = Null
  /\ parents = Null
  /\ visited = Null
  /\ cost = Null
  /\ pq = Null
  /\ working = FALSE
  /\ pointsPerPost = pointsPerPostDefault
  /\ newPoints = Undefined
  /\ interrupted = FALSE
  /\ restarted = FALSE
  /\ inside = Null
  /\ outside = Null
  /\ trained = FALSE
  /\ trainingPoints = Null
  /\ edgeTraining = Null
  /\ gradTraining = Null
  /\ insideTraining = Null
  /\ outsideTraining = Null
  /\ buffer = Null
  /\ ToolsInit

NextTrain ==
  \/ width = -1 /\ setDimensions(TrainW, TrainH)
  \/ width # -1 /\ \E data \in TrainImages : setData(data)
  \/ greyscale # Null /\ \E sp \in TrainSeeds : setPoint(sp)
  \/ \E w \in BOOLEAN : setWorking(w)
  \/ doWork
  \/ \E p \in TrainTargets : doTraining(p)
  \/ resetTraining

TrainSpec == InitTrain /\ [][NextTrain]_vars

\* ---- Training on long paths ----
\* A LongW x TrainH image with an edge at column 3: the path from the seed
\* (0, 2) to (LongW - 1, 2) has more than trainingLength points, the one to
\* (12, 2) between 8 and gradPointsNeeded, the one to (3, 2) fewer than 8.
LongImages ==
  {[p \in Pixels(LongW, TrainH) |-> IF p[1] >= 3 THEN White ELSE Black]}

LongTargets == {<<3, 2>>, <<12, 2>>, <<LongW - 1, 2>>}

\* The image is loaded once; searches and trainings follow in any order.
LongNext ==
  \/ width = -1 /\ setDimensions(LongW, TrainH)
  \/ width # -1 /\ greyscale = Null /\ \E data \in LongImages : setData(data)
  \/ greyscale # Null /\ setPoint(<<0, 2>>)
  \/ \E w \in BOOLEAN : setWorking(w)
  \/ doWork
  \/ \E p \in LongTargets : doTraining(p)

LongSpec == InitTrain /\ [][LongNext]_vars

\* ---- Properties of the search ----
Searching == pq # Null                       \* a search state exists
Finished == Searching /\ isEmpty(pq)
VisitedSet == {p \in DOMAIN visited : visited[p]}
\* a doWork call that ran the loop (it is the only step that returns a batch)
WorkStepTaken == working /\ newPoints' # Undefined /\ doWork
\* the pixels of a batch, in the order they were finalized
BatchPixels(b) == [i \in 1..(Len(b) \div 2) |-> b[2 * i - 1]]
\* the image has a usable gradient field: not flat, no undefined padding
GradientDefined == gradient # Null /\ \A p \in DOMAIN gradient : gradient[p] # NaN

\* C1: once the queue has run empty every pixel of the W x H image is visited
\* (the state repeated doWork calls must reach).  Stated for images whose
\* gradient field is defined everywhere, where every edge cost should be finite.
C1_AllVisitedWhenQueueEmpty ==
  (Finished /\ GradientDefined) => \A p \in Pixels(width, height) : visited[p]

\* C2: a doWork step never changes the cost or the parent of a pixel that was
\* already visited before the step.
C2_VisitedIsFinal ==
  [][WorkStepTaken =>
       \A p \in VisitedSet : cost'[p] = cost[p] /\ parents'[p] = parents[p]]_vars

\* C3: a doWork step only finalizes pixels that were not visited before the
\* step, and no pixel twice in its batch.
C3_PopsOnlyUnvisited ==
  [][WorkStepTaken =>
       LET b == BatchPixels(newPoints')
       IN /\ \A i \in DOMAIN b : ~visited[b[i]]
          /\ \A i, j \in DOMAIN b : b[i] = b[j] => i = j]_vars

\* C4: between doWork calls, every visited pixel p and visited neighbour q
\* satisfy cost[p] <= cost[q] + dist(q, p).
C4_DijkstraOptimality ==
  Searching =>
    \A p \in VisitedSet :
      \A i \in DOMAIN adj(greyscale, p) :
        LET q == adj(greyscale, p)[i]
        IN visited[q] =>
             Leq(cost[p], Add(cost[q], dist(gradient, laplace, gradX, gradY, q, p)))

\* following parent pointers from p reaches the seed within n steps
RECURSIVE ReachesSeed(_, _)
ReachesSeed(p, n) ==
  IF p = curPoint THEN TRUE
  ELSE IF n = 0 \/ parents[p] = Null THEN FALSE
  ELSE ReachesSeed(parents[p], n - 1)

\* C5: the parent pointers have no cycle: the seed has no parent and the
\* chain of every pixel that has a parent ends at the seed.
C5_ParentsReachSeed ==
  Searching =>
    /\ parents[curPoint] = Null
    /\ \A p \in DOMAIN parents :
         parents[p] # Null => ReachesSeed(p, Cardinality(DOMAIN parents))

\* C6: the seed costs 0 and no visited pixel has a negative cost.
C6_CostFloor ==
  Searching =>
    /\ cost[curPoint] = <<0, 0>>
    /\ \A p \in VisitedSet : Leq(<<0, 0>>, cost[p])

\* C7: a step that leaves the search paused (the pause itself, or a doWork call
\* while paused) leaves the search matrices and the queue as they were, and a
\* doWork call while paused returns nothing.
C7_PausedIsNoOp ==
  [][(Searching /\ ~working') =>
       /\ UNCHANGED <<visited, cost, parents, pq>>
       /\ (doWork => newPoints' = Undefined)]_vars

\* the search from the current seed run to the end in one go
RECURSIVE RunOut(_)
RunOut(s) == IF isEmpty(s.pq) THEN s ELSE RunOut(WorkStep(s))
WithBatch(f) ==
  [visited |-> f.visited, parents |-> f.parents, cost |-> f.cost, pq |-> f.pq,
   newPoints |-> <<>>]
Uninterrupted == RunOut(WithBatch(FreshSearch(width, height, curPoint)))

\* C8: a finished search holds the visited, cost and parent matrices of the
\* same search run without interruption, also after pauses with doWork calls.
C8_ResumeEqualsUninterrupted ==
  Finished =>
    \E u \in {Uninterrupted} :
      visited = u.visited /\ cost = u.cost /\ parents = u.parents

\* C9: a returned batch has at most pointsPerPost pairs and exactly one pair
\* for each pixel finalized by the call.
C9_BatchBounded ==
  [][WorkStepTaken =>
       LET b == BatchPixels(newPoints')
       IN /\ Len(newPoints') = 2 * Len(b)
          /\ Len(b) <= pointsPerPost
          /\ \A i, j \in DOMAIN b : b[i] = b[j] => i = j
          /\ {b[i] : i \in DOMAIN b} = {p \in DOMAIN visited : visited'[p] /\ ~visited[p]}]_vars

\* C10: whatever the state before, setPoint(seed) leaves nothing visited, every
\* cost MAX_VALUE but the seed's 0, no parents, a queue at its start holding
\* the seed alone, and working set.
C10_SetPointResets ==
  [][(greyscale # Null /\ curPoint' # Null /\ setPoint(curPoint')) =>
       /\ \A p \in Pixels(width, height) :
            /\ visited'[p] = FALSE
            /\ parents'[p] = Null
            /\ cost'[p] = IF p = curPoint' THEN <<0, 0>> ELSE MAX_VALUE
       /\ DOMAIN visited' = Pixels(width, height)
       /\ DOMAIN cost' = Pixels(width, height)
       /\ DOMAIN parents' = Pixels(width, height)
       /\ Len(pq'.items) = 1 /\ pq'.items[1][1] = curPoint' /\ pq'.loc = 0
       /\ working']_vars

\* the blank search of the current image and seed: nothing visited, no
\* parents, every cost MAX_VALUE but the seed's 0, the seed alone in the queue
BlankSearch ==
  [visited |-> [p \in Pixels(width, height) |-> FALSE],
   parents |-> [p \in Pixels(width, height) |-> Null],
   cost |-> [p \in Pixels(width, height) |-> IF p = curPoint THEN <<0, 0>> ELSE MAX_VALUE],
   pq |-> [items |-> << <<curPoint, 0>> >>, loc |-> 0],
   newPoints |-> <<>>]

IsSuffix(b, s) == Len(b) <= Len(s) /\ SubSeq(s, Len(s) - Len(b) + 1, Len(s)) = b

\* the current search state is one of the states the loop of doWork goes
\* through from s on, and the last batch is made of the last pixels popped
RECURSIVE OnRun(_)
OnRun(s) ==
  \/ /\ visited = s.visited /\ parents = s.parents /\ cost = s.cost /\ pq = s.pq
     /\ newPoints # Undefined => IsSuffix(newPoints, s.newPoints)
  \/ ~isEmpty(s.pq) /\ OnRun(WorkStep(s))

\* C11: the search state and the batches are determined by the image, the seed
\* and the number of pixels popped so far: whatever was called before setPoint
\* and however the doWork calls were paced or paused, the state is a state of
\* the one run that starts from the blank search.
C11_Determinism == Searching => OnRun(BlankSearch)

\* the pixels the queue holds, in push order
Pending == [i \in DOMAIN pq.items |-> pq.items[i][1]]

\* C13: the queue holds no pixel twice, it holds every pixel that has been
\* given a cost and is not visited yet, and it holds each pixel in the bucket
\* of the pixel's current cost.
C13_PendingHeldOnce ==
  Searching =>
    /\ \A i, j \in DOMAIN Pending : Pending[i] = Pending[j] => i = j
    /\ \A p \in DOMAIN cost :
         (cost[p] # MAX_VALUE /\ ~visited[p]) => \E i \in DOMAIN Pending : Pending[i] = p
    /\ \A i \in DOMAIN pq.items : pq.items[i][2] = getBucket(cost[pq.items[i][1]])

\* round(2^searchGranBits * c) for a cost c = <<X, 0>>
RoundScaled(c) == ((2 ^ searchGranBits) * c[1] + (Unit \div 2)) \div Unit

\* C14: every pixel the queue holds sits in bucket round(B * cost) mod B,
\* B = 2^searchGranBits = 256 (stated for the pixels whose cost has no
\* SQRT1_2 part, where the rounding is integer arithmetic).
C14_BucketIndex ==
  Searching =>
    \A i \in DOMAIN pq.items :
      LET c == cost[pq.items[i][1]]
      IN (c # MAX_VALUE /\ c # NaN /\ c[2] = 0) =>
           pq.items[i][2] = RoundScaled(c) % (2 ^ searchGranBits)

\* C22: in every state of a search, a pixel that has a parent costs at least
\* as much as its parent, so cost never increases walking the parents back to
\* the seed.
C22_CostMonotoneAlongParents ==
  Searching =>
    \A q \in DOMAIN parents :
      parents[q] # Null => Leq(cost[parents[q]], cost[q])

\* C27: the first doWork step of a search (nothing visited yet) finalizes the
\* seed first, paired with an empty parent, although the seed was pushed while
\* its cost was still MAX_VALUE; and in no state of a search has the seed a
\* parent.
C27_SeedFirstAndParentless ==
  [][/\ (WorkStepTaken /\ VisitedSet = {}) =>
          /\ Len(newPoints') >= 2
          /\ newPoints'[1] = curPoint
          /\ newPoints'[2] = Null
          /\ visited'[curPoint]
     /\ pq' # Null => parents'[curPoint'] = Null]_vars

\* C29: whenever working is true a search state (queue, cost, visited,
\* parents) exists, so that doWork has a queue to run on.
C29_WorkingHasSearch ==
  working => pq # Null /\ cost # Null /\ visited # Null /\ parents # Null

\* the relaxation of q from p calls remove(q)
CallsRemove(s, p, q) ==
  /\ Less(Add(s.cost[p], dist(gradient, laplace, gradX, gradY, p, q)), s.cost[q])
  /\ s.cost[q] # MAX_VALUE

InQueue(q0, item) == \E i \in DOMAIN q0.items : q0.items[i][1] = item

\* every remove(q) of the relaxations of adjList[i..] from p finds q queued
RECURSIVE RemovesFind(_, _, _, _)
RemovesFind(s, p, adjList, i) ==
  IF i > Len(adjList) THEN TRUE
  ELSE /\ CallsRemove(s, p, adjList[i]) => InQueue(s.pq, adjList[i])
       /\ RemovesFind(Relax(s, p, adjList[i]), p, adjList, i + 1)

\* the same for every iteration of doWork's while loop from s on
RECURSIVE LoopRemovesFind(_, _, _)
LoopRemovesFind(s, pointCount, limit) ==
  IF ~isEmpty(s.pq) /\ pointCount < limit
  THEN LET r == pop(s.pq)
           s1 == [s EXCEPT !.pq = r.queue,
                           !.visited = [@ EXCEPT ![r.item] = TRUE]]
       IN /\ RemovesFind(s1, r.item, adj(greyscale, r.item), 1)
          /\ LoopRemovesFind(WorkStep(s), pointCount + 1, limit)
  ELSE TRUE

\* C30: whenever a doWork step calls remove(q), q is in the queue at that
\* moment: a finite cost is lowered only for a pixel still pending.
C30_RemoveFindsItem ==
  [][WorkStepTaken =>
       LoopRemovesFind([visited |-> visited, parents |-> parents, cost |-> cost,
                        pq |-> pq, newPoints |-> <<>>], 0, pointsPerPost)]_vars

\* ---- Properties of the fields setData builds ----
\* within 2 pixels of the image border / at least 2 away from every border
NearBorder(p) ==
  p[1] < 2 \/ p[1] >= width - 2 \/ p[2] < 2 \/ p[2] >= height - 2
Interior == {p \in Pixels(width, height) : ~NearBorder(p)}

\* C18: the Laplace field has a value at each of the W x H positions, and a 1
\* at every position within 2 pixels of the border.
C18_LaplaceDefined ==
  laplace # Null =>
    \A p \in Pixels(width, height) :
      /\ p \in DOMAIN laplace
      /\ NearBorder(p) => laplace[p] = 1

\* C19 as stated: at an interior pixel the field is 1 when the stencil value
\* is above 0.33 and 0 otherwise.
C19_AboveThresholdIsOne ==
  laplace # Null =>
    \A p \in Interior :
      laplace[p] = IF 100 * greyLaplace(greyscale, p[1], p[2]) > 33 THEN 1 ELSE 0

\* C19 amended: at an interior pixel the field is 0 when the stencil value is
\* above 0.33 and 1 otherwise.
C19_AboveThresholdIsZero ==
  laplace # Null =>
    \A p \in Interior :
      /\ p \in DOMAIN laplace
      /\ laplace[p] = IF 100 * greyLaplace(greyscale, p[1], p[2]) > 33 THEN 0 ELSE 1

\* C20: on an image that is not flat every gradient entry is defined, the
\* last column equals column W-2 and the last row equals row H-2.
C20_GradientPadding ==
  (gradient # Null /\ GradientMax2(greyscale) > 0) =>
    /\ \A p \in Pixels(width, height) : gradient[p] # NaN
    /\ \A y \in 0..(height - 1) : gradient[<<width - 1, y>>] = gradient[<<width - 2, y>>]
    /\ \A x \in 0..(width - 1) : gradient[<<x, height - 1>>] = gradient[<<x, height - 2>>]

\* ---- The queue of setPoint on its own ----
\* The queue setPoint creates (its cost functor reads the live cost matrix) is
\* filled with the items <<0, 0>>, <<1, 0>>, ... in this order, under costs in
\* [0, 1] drawn at the start, and then emptied; newPoints lists the items popped.
QCosts == {<<0, 0>>, <<360, 0>>, <<540, 0>>, <<600, 0>>, <<Unit, 0>>}   \* 0, 0.3, 0.45, 0.5, 1

QInit ==
  /\ width = QMax
  /\ height = 1
  /\ cost \in [Pixels(QMax, 1) -> QCosts]
  /\ pq = NewBucketQueue
  /\ newPoints = <<>>
  /\ curPoint = Null
  /\ greyscale = Null
  /\ laplace = Null
  /\ gradient = Null
  /\ gradX = Null
  /\ gradY = Null
  /\ parents = Null
  /\ visited = Null
  /\ working = FALSE
  /\ pointsPerPost = pointsPerPostDefault
  /\ interrupted = FALSE
  /\ restarted = FALSE
  /\ inside = Null
  /\ outside = Null
  /\ trained = FALSE
  /\ trainingPoints = Null
  /\ edgeTraining = Null
  /\ gradTraining = Null
  /\ insideTraining = Null
  /\ outsideTraining = Null
  /\ buffer = Null
  /\ ToolsInit

QPush ==
  /\ newPoints = <<>>
  /\ Len(pq.items) < QMax
  /\ pq' = push(pq, <<Len(pq.items), 0>>, cost)
  /\ UNCHANGED <<width, height, greyscale, laplace, gradient, gradX, gradY, working,
                 curPoint, visited, parents, cost, pointsPerPost, newPoints,
                 interrupted, restarted,
                 inside, outside, training, tools>>

QPop ==
  /\ ~isEmpty(pq)
  /\ \E r \in {pop(pq)} :
        /\ pq' = r.queue
        /\ newPoints' = Append(newPoints, r.item)
  /\ UNCHANGED <<width, height, greyscale, laplace, gradient, gradX, gradY, working,
                 curPoint, visited, parents, cost, pointsPerPost, interrupted, restarted,
                 inside, outside, training, tools>>

QNext == QPush \/ QPop
QueueSpec == QInit /\ [][QNext]_vars

\* C12: the items come out in non-decreasing cost order, and items of equal
\* cost in the order they were pushed (the order of their x).
C12_PopsInCostOrder ==
  \A i, j \in DOMAIN newPoints :
    i < j => /\ Leq(cost[newPoints[i]], cost[newPoints[j]])
             /\ cost[newPoints[i]] = cost[newPoints[j]] => newPoints[i][1] < newPoints[j][1]

\* ---- Properties of training ----
tables == <<edgeTraining, gradTraining, insideTraining, outsideTraining>>

\* C15: a doTraining call that gathers fewer than 8 points leaves the four
\* training tables and the trained flag as they were, trained or not.
C15_ShortTrainingIsNoOp ==
  [][\A p \in TrainTargets :
       (Len(trainingPoints') < minTrainingPoints /\ doTraining(p))
         => UNCHANGED <<tables, trained>>]_vars

\* what setPoint, doWork and setWorking write
SearchVars ==
  <<working, curPoint, visited, parents, cost, pq, newPoints, interrupted, restarted>>

\* a step that has the effects of a doTraining call outside the tables: the
\* training points are those of p, and nothing of the search or image changes
TrainingCall(p) ==
  /\ trainingPoints' = findTrainingPoints(p)
  /\ UNCHANGED <<SearchVars, width, height, greyscale, laplace, gradient, gradX,
                 gradY, inside, outside, pointsPerPost>>

\* C16: a step that touches the search or the working flag (setPoint, doWork,
\* setWorking) leaves the four tables and the trained flag unchanged; the
\* tables change only in a doTraining call or with a new image, the flag only
\* in a doTraining or resetTraining call.
C16_TablesPersist ==
  [][/\ SearchVars' # SearchVars => UNCHANGED <<tables, trained>>
     /\ tables' # tables =>
          \/ edgeTraining' = <<>> /\ \E data \in TrainImages : setData(data)
          \/ trained' /\ \E p \in TrainTargets : TrainingCall(p)
     /\ trained' # trained =>
          \/ resetTraining
          \/ trained' /\ \E p \in TrainTargets : TrainingCall(p)]_vars

\* a table with one entry per bucket of its granularity
Populated(table, granularity) == DOMAIN table = 0..(granularity - 1)

\* C28: whenever trained is true, each of the four training tables has one
\* entry per bucket of its granularity.
C28_TrainedTablesPopulated ==
  trained =>
    /\ Populated(edgeTraining, edgeGran)
    /\ Populated(gradTraining, gradGran)
    /\ Populated(insideTraining, insideGran)
    /\ Populated(outsideTraining, outsideGran)

\* the number of points on the parent chain from p, p included; none while no
\* search has built the parents
RECURSIVE ChainFrom(_, _)
ChainFrom(p, left) ==
  IF p = Null \/ left = 0 THEN 0 ELSE 1 + ChainFrom(parents[p], left - 1)

ChainLength(p) ==
  IF parents = Null THEN 0 ELSE ChainFrom(p, Cardinality(DOMAIN parents))

\* the gradient table of the points gathered, before the ramp
PlainGradTable(pts) == calculateTraining(pts, gradGran, GradientNumbers).output

\* C24 as stated: doTraining(p) gathers min(32, chain length) points, sets
\* trained exactly when they are at least 8, and blends the gradient table
\* with the ramp exactly when they are fewer than gradPointsNeeded.
C24_BlendsBelowNeeded ==
  [][\A p \in LongTargets :
       (TrainingCall(p) /\ doTraining(p)) =>
         \E n \in {Len(trainingPoints')}, plain \in {PlainGradTable(trainingPoints')} :
            /\ n = Min(trainingLength, ChainLength(p))
            /\ trained' = (trained \/ n >= minTrainingPoints)
            /\ gradTraining' =
                 IF n < gradPointsNeeded
                 THEN addInStaticGrad(plain, n, gradPointsNeeded)
                 ELSE plain]_vars

\* C24, amended: doTraining(p) gathers min(32, chain length) points, sets
\* trained exactly when they are at least 8, and blends the gradient table
\* with the ramp exactly when they are at least 8 and fewer than
\* gradPointsNeeded; with fewer than 8 the table is left as it was.
C24_BlendsFromEightBelowNeeded ==
  [][\A p \in LongTargets :
       (TrainingCall(p) /\ doTraining(p)) =>
         \E n \in {Len(trainingPoints')}, plain \in {PlainGradTable(trainingPoints')} :
            /\ n = Min(trainingLength, ChainLength(p))
            /\ trained' = (trained \/ n >= minTrainingPoints)
            /\ gradTraining' =
                 IF n < minTrainingPoints THEN gradTraining
                 ELSE IF n < gradPointsNeeded
                 THEN addInStaticGrad(plain, n, gradPointsNeeded)
                 ELSE plain]_vars

\* ---- calculateTraining on its own ----
\* A table is trained on n points whose input value k / (granularity - 1)
\* quantizes to bucket k.  greyscale holds the input matrix (as numbers),
\* trainingPoints the points; the edge table takes the output of
\* calculateTraining, the gradient table that of doTraining's gradient step
\* (calculateTraining at gradGran, then addInStaticGrad below gradPointsNeeded).
TableGranMax == 9
TablePointsMax == 10
TableGrans == 5..TableGranMax
GradBuckets == {0, 512, gradGran - 1}

TableInit ==
  /\ \E n \in minTrainingPoints..TablePointsMax :
     \E granularity \in TableGrans \cup {gradGran} :
     \E k \in IF granularity = gradGran THEN GradBuckets ELSE 0..(granularity - 1) :
       /\ trainingPoints = [i \in 1..n |-> <<i - 1, 0>>]
       /\ greyscale = [p \in Pixels(n, 1) |-> <<k, 0, granularity - 1>>]
  /\ width = -1
  /\ height = -1
  /\ curPoint = Null
  /\ laplace = Null
  /\ gradient = Null
  /\ gradX = Null
  /\ gradY = Null
  /\ parents = Null
  /\ visited = Null
  /\ cost = Null
  /\ pq = Null
  /\ working = FALSE
  /\ pointsPerPost = pointsPerPostDefault
  /\ newPoints = Undefined
  /\ interrupted = FALSE
  /\ restarted = FALSE
  /\ inside = Null
  /\ outside = Null
  /\ trained = FALSE
  /\ edgeTraining = Null
  /\ gradTraining = Null
  /\ insideTraining = Null
  /\ outsideTraining = Null
  /\ buffer = Null
  /\ ToolsInit

InputGran == greyscale[<<0, 0>>][3] + 1
InputBucket == greyscale[<<0, 0>>][1]

TableTrain ==
  /\ InputGran # gradGran
  /\ edgeTraining = Null
  /\ \E r \in {calculateTraining(trainingPoints, InputGran, greyscale)} :
       edgeTraining' = r.output /\ buffer' = r.buffer
  /\ UNCHANGED <<width, height, greyscale, laplace, gradient, gradX, gradY, working,
                 curPoint, visited, parents, cost, pq, pointsPerPost, newPoints,
                 interrupted, restarted, inside, outside, trained, trainingPoints,
                 gradTraining, insideTraining, outsideTraining, tools>>

TableTrainGrad ==
  /\ InputGran = gradGran
  /\ gradTraining = Null
  /\ \E r \in {calculateTraining(trainingPoints, gradGran, greyscale)} :
       /\ gradTraining' = IF Len(trainingPoints) < gradPointsNeeded
                          THEN addInStaticGrad(r.output, Len(trainingPoints),
                                               gradPointsNeeded)
                          ELSE r.output
       /\ buffer' = r.buffer
  /\ UNCHANGED <<width, height, greyscale, laplace, gradient, gradX, gradY, working,
                 curPoint, visited, parents, cost, pq, pointsPerPost, newPoints,
                 interrupted, restarted, inside, outside, trained, trainingPoints,
                 edgeTraining, insideTraining, outsideTraining, tools>>

TableNext == TableTrain \/ TableTrainGrad

TableSpec == TableInit /\ [][TableNext]_vars

\* the table's smallest entry is (one of) the entries at bucket k
MinimumAt(table, k) == \A i \in DOMAIN table : ~FracLess(table[i], table[k])

\* C17: a table trained on at least 8 points that all quantize to bucket k has
\* its global minimum at index k.
C17_MinimumAtBucket ==
  /\ edgeTraining # Null => MinimumAt(edgeTraining, InputBucket)
  /\ gradTraining # Null => MinimumAt(gradTraining, InputBucket)

\* ---- Configuration ----
\* setDimensions and setData in any order, setData before setDimensions
\* included; the data handed over has the dimensions set (2 x 2 while none is).
CfgImages ==
  IF width = -1 \/ height = -1 THEN Images(2, 2) ELSE Images(width, height)

CfgNext ==
  \/ \E w \in 2..CfgDim, h \in 2..CfgDim : setDimensions(w, h)
  \/ \E data \in CfgImages : setData(data)
  \/ \E w \in BOOLEAN : setWorking(w)

CfgSpec == Init /\ [][CfgNext]_vars

\* the fields setData derives from the image
derived == <<greyscale, laplace, gradient, gradX, gradY, inside, outside>>

\* C21: setData while width or height is unset throws "Dimensions have not
\* been set." and leaves every derived field and every training table as it
\* was; once setDimensions has set both, setData throws nothing.
C21_SetDataNeedsDimensions ==
  [][\A data \in CfgImages :
       setData(data) =>
         IF width = -1 \/ height = -1
         THEN DimensionsNotSet \in thrown' /\ UNCHANGED <<derived, tables, trained>>
         ELSE thrown' = thrown /\ greyscale' # Null]_vars

\* ---- Properties of the shape editor ----
EditorSpec == Init /\ [][EditorNext]_vars

\* the keys of the list whose factory recognises the group
Recognisers(list, group) == {i \in DOMAIN list : group \in list[i]}

\* C23: setShape with a shape whose group no factory of the list recognises
\* throws; when one or more recognise it, the first in list order becomes the
\* current factory.
C23_FirstFactoryOrError ==
  [][\A inshape \in Shapes :
       (shapeFactoryList # Null /\ setShape(inshape)) =>
         LET hits == Recognisers(shapeFactoryList, inshape.parent)
         IN IF hits = {}
            THEN CouldNotFindFactory \in thrown' /\ currentFactory' = Null
            ELSE /\ thrown' = thrown
                 /\ currentFactory'.key \in hits
                 /\ \A i \in hits : currentFactory'.key <= i]_vars

\* ---- Properties of the filter tool ----
FilterSpec == Init /\ [][FilterNext]_vars

\* the calls cs set the last image to image, then call the callback name
\* with the event, and call it no second time
SetsThenCallsOnce(cs, image, name, event) ==
  /\ \E i, j \in DOMAIN cs :
       /\ i < j
       /\ cs[i][1] = "setLastImage" /\ cs[i][2] = image
       /\ cs[j][1] = name /\ cs[j][2] = event
  /\ Cardinality({j \in DOMAIN cs : cs[j][1] = name}) = 1

C26_RunEventsForwarded ==
  [][\A key \in FilterNames :
       run(key) =>
         notified' =
           IF activated
           THEN {<<l[2], <<"filterrun", "Filter-" \o key>>>> :
                   l \in {x \in toolListeners : x[1] = "filterrun"}}
           ELSE {}]_vars

\* ---- Reachable cases of the properties ----
\* a finished search in which some parent chain has at least two links
C5_Witness ==
  Finished /\ \E p \in DOMAIN parents : parents[p] # Null /\ parents[parents[p]] # Null

\* a finished search that visited pixels at a positive cost
C6_Witness ==
  Finished /\ \E p \in VisitedSet : p # curPoint /\ cost[p] # <<0, 0>>

\* paused in mid-search, and doWork has been called while paused
C7_Witness ==
  /\ Searching /\ ~working /\ interrupted /\ newPoints = Undefined
  /\ ~isEmpty(pq) /\ VisitedSet # {}

\* a search finished after it was paused in mid-search and resumed
C8_Witness ==
  Finished /\ interrupted /\ working /\ Cardinality(VisitedSet) > 2

\* the state setPoint leaves when called in the middle of a search
C10_Witness ==
  restarted /\ working /\ VisitedSet = {} /\ Len(pq.items) = 1

\* in mid-search, after a pause with doWork calls, with a batch just returned
C11_Witness ==
  /\ Searching /\ ~isEmpty(pq) /\ interrupted /\ working
  /\ newPoints # Undefined /\ Len(newPoints) > 0

\* a whole search in one batch in which some pixel q, when first popped, had
\* for parent a pixel popped after another neighbour of q: the cost of q was
\* lowered while q was enqueued
C13_Witness ==
  /\ Finished /\ newPoints # Undefined /\ Len(newPoints) > 0 /\ newPoints[1] = curPoint
  /\ \E k \in DOMAIN BatchPixels(newPoints) :
       LET b == BatchPixels(newPoints)
           q == b[k]
       IN /\ \A j \in 1..(k - 1) : b[j] # q
          /\ \E j, l \in 1..(k - 1) :
               /\ j < l
               /\ b[l] = newPoints[2 * k]
               /\ b[j] # q
               /\ b[j][1] - q[1] \in {-1, 0, 1}
               /\ b[j][2] - q[2] \in {-1, 0, 1}

\* an image with an interior pixel whose stencil value is above the threshold
C19_Witness ==
  /\ laplace # Null
  /\ \E p \in Interior :
       100 * greyLaplace(greyscale, p[1], p[2]) > 33 /\ laplace[p] = 0

\* C15: a trained session in which a later doTraining gathered too few points
C15_Witness ==
  /\ trained
  /\ trainingPoints # Null
  /\ Len(trainingPoints) > 0
  /\ Len(trainingPoints) < minTrainingPoints
  /\ DOMAIN edgeTraining = 0..(edgeGran - 1)

\* C16: a search that ran on trained costs, the tables still in place
C16_Witness ==
  /\ trained
  /\ DOMAIN gradTraining = 0..(gradGran - 1)
  /\ cost # Null
  /\ \E p \in DOMAIN cost : IsTNum(cost[p])
  /\ newPoints # Undefined

\* C21: setData threw before the dimensions were set, and built the fields
\* after
C21_Witness ==
  /\ DimensionsNotSet \in thrown
  /\ width # -1
  /\ greyscale # Null
  /\ DOMAIN greyscale = Pixels(width, height)

\* C22: a pixel two parents away from the seed's side, each step strictly dearer
C22_Witness ==
  /\ Searching
  /\ \E q \in DOMAIN parents :
       /\ parents[q] # Null
       /\ parents[parents[q]] # Null
       /\ Less(cost[parents[q]], cost[q])
       /\ Less(cost[parents[parents[q]]], cost[parents[q]])

\* C23: a shape that two factories of the list recognise, after an earlier
\* shape that none recognised
C23_Witness ==
  /\ CouldNotFindFactory \in thrown
  /\ shape # Null
  /\ currentFactory # Null
  /\ Cardinality(Recognisers(shapeFactoryList, shape.parent)) > 1
  /\ currentFactory.key = 1

\* C24: a training on 8 to 31 points, the gradient table capped by the ramp
C24_Witness ==
  /\ trained
  /\ Len(trainingPoints) >= minTrainingPoints
  /\ Len(trainingPoints) < gradPointsNeeded
  /\ ChainLength(trainingPoints[1]) = Len(trainingPoints)
  /\ DOMAIN gradTraining = 0..(gradGran - 1)
  /\ gradTraining[gradGran - 1] =
       <<gradPointsNeeded * gradGran
           - (gradGran - 1) * (gradPointsNeeded - Len(trainingPoints)),
         gradPointsNeeded * gradGran>>

\* C27: the seed was finalized first, has cost 0 and no parent, and is the
\* parent of a neighbour
C27_Witness ==
  /\ Searching /\ newPoints # Undefined /\ Len(newPoints) >= 2
  /\ newPoints[1] = curPoint /\ newPoints[2] = Null
  /\ visited[curPoint] /\ cost[curPoint] = <<0, 0>> /\ parents[curPoint] = Null
  /\ \E q \in DOMAIN parents : parents[q] = curPoint

====
